---- MODULE Spec2Model ----
(***************************************************************************)
(* Shopify MCP server: the API client (ShopifyClient.ts) and the tool      *)
(* handlers around it (index.ts).                                          *)
(*                                                                         *)
(* One invocation of a client method is modelled as a stack of async call  *)
(* frames.  Every await of an async call is one step; the remote answers   *)
(* every request according to a script fixed when the invocation starts.   *)
(* Spec follows one invocation, made directly or through a tool; LoadSpec  *)
(* follows tool calls that overlap at their awaits of fetch.               *)
(***************************************************************************)
EXTENDS Integers, Sequences, FiniteSets, TLC

\* ------------------------------------------------------------------ bounds
\* Depth at which the runtime refuses one more call frame.
StackLimit == 7
\* Tool calls the server accepts in one run, and how many of them, the
\* first ones, run with no other call in flight.
MaxCalls == 3
SoloCalls == 1

\* ------------------------------------------------------------- constants
\* The literal 1 of "value > 1", with values counted in hundredths.
One == 100
\* response.ok is true for the statuses 200..299.
OkLow == 200
OkHigh == 299

\* --------------------------------------------------------------- inputs
\* The store handle the caller supplies, and the canonical host that the
\* shop.json endpoint reports in shop.myshopify_domain.
CustomDomain == "shop.example.com"
Canonical == "shop.myshopify.com"
Handles == {CustomDomain, Canonical}
CallerToken == "shpat_caller"

Statuses == {200, 204, 401, 402, 403, 422, 500}
Signals == {"generic", "access", "payment", "fields"}
UserErrorLists == {<< >>, <<"e1">>, <<"e1", "e2">>}
VariantStates == {"missing", "unavailable", "available"}
DiscountValues == {0 - 50, 0, 50, 100, 150}
ValueTypes == {"percentage", "fixed_amount"}

\* Header text is a sequence of words; a search string is a sequence of
\* words too, and matches wherever its words occur in a row.
Words(rel) == <<"rel=\"", rel, "\"">>
RelPrevious == Words("previous")
NextMarker == <<">; ">> \o Words("next")
PageInfoKey == <<"page_info=">>

\* One link of the header as the remote writes it.
LinkText(host, rel, pageInfo) ==
  <<"<https://">> \o host \o
  <<".myshopify.com/admin/api/2025-04/custom_collections.json?limit=10&",
    "page_info=", pageInfo, ">; ">> \o Words(rel)

\* The store names and page tokens the headers are built from: the store
\* name is part of every link's URL.
StoreNames == {<<"shop">>, <<"next", "shop">>}
PageTokens == {"abc", "xyz"}

\* What headers.get("link") returns: null when the header is absent, the
\* empty string, one link, or the previous link followed by the next link.
\* shape names the links the text was built from.
NoLinkHeader == [shape |-> "absent", text |-> << >>, nextPage |-> "none"]
LinkHeaders ==
  {NoLinkHeader, [shape |-> "empty", text |-> << >>, nextPage |-> "none"]}
  \cup
  {[shape |-> "previous", text |-> LinkText(h, "previous", p),
    nextPage |-> "none"] : h \in StoreNames, p \in PageTokens}
  \cup
  {[shape |-> "next", text |-> LinkText(h, "next", p), nextPage |-> p] :
     h \in StoreNames, p \in PageTokens}
  \cup
  {[shape |-> "both",
    text |-> LinkText(h, "previous", p) \o <<", ">> \o
             LinkText(h, "next", q),
    nextPage |-> q] : h \in StoreNames, p \in PageTokens, q \in PageTokens}

\* An optional string: its words, or undefined.
Defined(s) == [defined |-> TRUE, s |-> s]
Undefined == [defined |-> FALSE, s |-> << >>]

\* Identifiers, as sequences of words: the bare id 123, and the GlobalId
\* that the template `gid://shopify/${type}/${id}` writes.
GidPrefix == "gid://shopify/"
Gid(type, id) == <<GidPrefix, type, "/">> \o id
BareId == <<"123">>
OtherBareId == <<"4567890">>
BareIds == {BareId, OtherBareId}
ResourceTypes ==
  {"Product", "ProductVariant", "Collection", "Customer", "DraftOrder",
   "DiscountCodeNode", "PriceRule", "WebhookSubscription"}
Ids == BareIds \cup {<< >>} \cup {Gid(t, BareId) : t \in ResourceTypes}

\* The composite cursors a caller of loadCollections passes as next.
Cursors ==
  {Undefined, Defined(<<"abc">>), Defined(<<"abc", ",", "xyz">>),
   Defined(<<"abc", ",", "undefined">>), Defined(<<"undefined", ",", "xyz">>),
   Defined(<<"undefined", ",", "undefined">>)}

\* What the remote answers to every request of one invocation.
\*   net      "ok", or "fail" when fetch itself rejects
\*   body     "data"    a JSON object without a top-level errors key
\*            "errors"  a JSON object with a non-empty top-level errors
\*            "null"    the JSON text null
\*            "nonjson" a body that does not parse as JSON
\*   signal   what a top-level errors value indicates
\*   the remaining fields are the store's state, read from a "data" body
\*   (eligible and sells are shop.features.eligibleForSubscriptions and
\*   shop.features.sellsSubscriptions)
\* WireScripts vary what comes over the wire, StoreScripts the store's state.
WireScripts ==
  [net : {"ok"}, status : Statuses, body : {"errors"}, signal : Signals,
   userErrors : {<< >>}, nodeNull : {FALSE}, variant : {"available"},
   eligible : {TRUE}, sells : {TRUE},
   customLink : {NoLinkHeader}, smartLink : {NoLinkHeader}]
  \cup
  [net : {"ok"}, status : Statuses, body : {"null", "nonjson"},
   signal : {"generic"}, userErrors : {<< >>}, nodeNull : {FALSE},
   variant : {"available"}, eligible : {TRUE}, sells : {TRUE},
   customLink : {NoLinkHeader}, smartLink : {NoLinkHeader}]
  \cup
  [net : {"fail"}, status : {200}, body : {"data"}, signal : {"generic"},
   userErrors : {<< >>}, nodeNull : {FALSE}, variant : {"available"},
   eligible : {TRUE}, sells : {TRUE},
   customLink : {NoLinkHeader}, smartLink : {NoLinkHeader}]
  \cup
  [net : {"ok"}, status : Statuses \ {200}, body : {"data"},
   signal : {"generic"}, userErrors : {<< >>}, nodeNull : {FALSE},
   variant : {"available"}, eligible : {TRUE}, sells : {TRUE},
   customLink : {NoLinkHeader}, smartLink : {NoLinkHeader}]

StoreScripts ==
  [net : {"ok"}, status : {200}, body : {"data"}, signal : {"generic"},
   userErrors : UserErrorLists, nodeNull : BOOLEAN, variant : VariantStates,
   eligible : BOOLEAN, sells : {TRUE},
   customLink : {NoLinkHeader}, smartLink : {NoLinkHeader}]

\* FeatureScripts vary the two shop features the eligibility query reads,
\* for a shop that does not sell subscriptions.
FeatureScripts ==
  [net : {"ok"}, status : {200}, body : {"data"}, signal : {"generic"},
   userErrors : {<< >>}, nodeNull : {FALSE}, variant : {"available"},
   eligible : BOOLEAN, sells : {FALSE},
   customLink : {NoLinkHeader}, smartLink : {NoLinkHeader}]

\* The headers a collections page can carry: none, the next link, or the
\* previous link followed by the next link.
PageLinks ==
  {NoLinkHeader,
   [shape |-> "next", text |-> LinkText(<<"shop">>, "next", "abc"),
    nextPage |-> "abc"],
   [shape |-> "both",
    text |-> LinkText(<<"shop">>, "previous", "abc") \o <<", ">> \o
             LinkText(<<"shop">>, "next", "xyz"),
    nextPage |-> "xyz"]}

\* PageScripts vary the Link headers of the two collection endpoints.
PageScripts ==
  [net : {"ok"}, status : {200}, body : {"data"}, signal : {"generic"},
   userErrors : {<< >>}, nodeNull : {FALSE}, variant : {"available"},
   eligible : {TRUE}, sells : {TRUE},
   customLink : PageLinks, smartLink : PageLinks]

RemoteScripts ==
  WireScripts \cup StoreScripts \cup FeatureScripts \cup PageScripts

\* What can be wrong with the input of a mutation that checks its input,
\* one defect at a time: a field that is absent (undefined), a title of
\* blanks, a list without elements, a metafield value that is null.
Defects ==
  {"title absent", "title blank", "id absent", "productId absent",
   "variants absent", "variants empty", "metafields absent",
   "metafields empty", "key absent", "namespace absent", "ownerId absent",
   "type absent", "value absent", "value null", "webhookId absent"}

\* The arguments of an invocation that the model varies; a method reads
\* the ones it takes.  The discount inputs have no defect.
Inputs ==
  [valueType : ValueTypes, value : DiscountValues, defect : {"none"},
   link : {NoLinkHeader}, next : {Undefined}, id : {BareId},
   type : {"Product"}]

\* The arguments of loadCollections.
CollectionInputs ==
  [valueType : {"percentage"}, value : {50}, defect : {"none"},
   link : {NoLinkHeader}, next : Cursors, id : {BareId}, type : {"Product"}]

\* ---------------------------------------------------------------- errors
\* The subscription fields of a request body: "omitted" for a key that is
\* not in the JSON text.
NoVariables ==
  [appliesOnOneTimePurchase |-> "omitted", appliesOnSubscription |-> "omitted",
   recurringCycleLimit |-> "omitted"]
\* A request as fetch sees it; NoReq where there is none.
NoReq == [via |-> "none", method |-> "none", host |-> "none",
          asks |-> "none", token |-> "none", id |-> << >>,
          variables |-> NoVariables]
NoList == << >>
\* An error object: its class, its code, the HTTP status it wraps, the user
\* errors it carries, and the request in its contextData.
Err(cls, code, status, list, ctx) ==
  [cls |-> cls, code |-> code, status |-> status, userErrors |-> list,
   ctx |-> ctx]
NoErr == Err("none", "none", 0, NoList, NoReq)

VARIABLES
  phase,      \* "idle", "running" or "done"
  op,         \* the client method invoked
  shop,       \* the store handle argument
  input,      \* the method's input
  remote,     \* the remote's script for this invocation
  stack,      \* async call frames, innermost last
  exc,        \* the error being thrown, NoErr when none
  requests,   \* every fetch issued, in order
  outcome,    \* how the invocation ended
  env,        \* the process environment of the server
  proc,       \* where the server process is in its start-up
  tool,       \* the tool whose handler is running, "none" when none
  reply,      \* what the handler returned to the protocol layer
  logs,       \* what has been written to the console, in order
  parked,     \* the invocation that is suspended while another one runs
  alone,      \* what the first tool call, which ran by itself, ended with
  handled     \* how many tool calls the server has accepted

vars ==
  <<phase, op, shop, input, remote, stack, exc, requests, outcome,
    env, proc, tool, reply, logs, parked, alone, handled>>
\* The state of the process around the client.
hostVars == <<env, proc, tool, reply, logs, parked, alone, handled>>
\* The event loop's other invocation and the record of the calls so far.
loopVars == <<parked, alone, handled>>


\* ------------------------------------------------------- the operations
\* Methods that resolve the domain first, then send one GraphQL mutation
\* and report its userErrors with getGraphqlShopifyUserError.
PlainMutations ==
  {"createPriceRule", "createDiscountCode", "deleteBasicDiscountCode",
   "subscribeWebhook", "unsubscribeWebhook", "updateProductVariantsBulk",
   "deleteProductVariantsBulk", "createStagedUploads", "createProductMedia",
   "updateCollection"}

\* Mutations that check their input before anything else.
ValidatedMutations ==
  {"createProduct", "updateProduct", "createProductVariantsBulk",
   "setMetafields", "createCollection"}

\* Methods that send a GraphQL mutation.
MutationOps ==
  PlainMutations \cup ValidatedMutations \cup
  {"createBasicDiscountCode", "tagCustomer", "createDraftOrder",
   "completeDraftOrder"}

\* Methods that resolve the domain, then send one GraphQL query.
ResolvedQueries ==
  {"loadOrders", "loadShopDetail", "loadMarkets",
   "loadProductsByCollectionId", "loadVariantsByIds", "loadProductsByIds",
   "findWebhookByTopicAndCallbackUrl", "getPriceRule"}

\* Methods that resolve the domain, then send one REST request.
ResolvedRest ==
  {"deletePriceRule", "deleteDiscountCode", "loadOrder", "loadCustomers",
   "loadShop"}

\* Methods that take the host as an argument and never resolve it.
DirectOps == {"loadProducts", "createDraftOrder", "checkSubscriptionEligibility"}

\* Methods that resolve the domain, then read pages of two REST endpoints.
PagedOps == {"loadCollections"}

DomainOps ==
  MutationOps \cup ResolvedQueries \cup ResolvedRest \cup DirectOps \cup
  PagedOps

\* The two transport entry points, callable on their own.
TransportOps == {"shopifyHTTPRequest", "shopifyGraphqlRequest"}

PublicOps == DomainOps \cup TransportOps

\* The statements of each method, one entry per step:
\*   "validate"     the local input checks
\*   "resolve"      await this.getMyShopifyDomain(accessToken, shop)
\*   "loadShop"     await this.loadShop(accessToken, shop)
\*   "loadVariants" await this.loadVariantsByIds(accessToken, shop, [id])
\*   "checkVariant" the two throws on the loaded variant
\*   "eligibility"  await this.checkSubscriptionEligibility(...)
\*   "graphql"      await this.shopifyGraphqlRequest(...)
\*   "http"         await this.shopifyHTTPRequest(...)
\*   "custom"       the guarded GET of custom_collections.json
\*   "customPage"   the statements after it, inside the same if
\*   "smart"        the guarded GET of smart_collections.json
\*   "smartPage"    the statements after it, inside the same if
\*   "unwrap"       everything after the last await, up to the return
\*   "fetch"        await fetch(url, ...)
\*   "respond"      the transport's handling of the response
Steps(fn) ==
  CASE fn = "getMyShopifyDomain" -> <<"loadShop", "unwrap">>
    [] fn \in ResolvedRest -> <<"resolve", "http", "unwrap">>
    [] fn \in PagedOps ->
         <<"resolve", "custom", "customPage", "smart", "smartPage", "unwrap">>
    [] fn \in ResolvedQueries -> <<"resolve", "graphql", "unwrap">>
    [] fn \in PlainMutations -> <<"resolve", "graphql", "unwrap">>
    [] fn = "tagCustomer" -> <<"resolve", "graphql", "unwrap">>
    [] fn \in ValidatedMutations ->
         <<"validate", "resolve", "graphql", "unwrap">>
    [] fn = "createBasicDiscountCode" ->
         <<"validate", "resolve", "eligibility", "graphql", "unwrap">>
    [] fn = "completeDraftOrder" ->
         <<"loadVariants", "checkVariant", "resolve", "graphql", "unwrap">>
    [] fn \in DirectOps -> <<"graphql", "unwrap">>
    [] fn \in TransportOps -> <<"fetch", "respond">>

\* The method a calling step awaits.
Callee(step) ==
  CASE step = "resolve" -> "getMyShopifyDomain"
    [] step = "loadShop" -> "loadShop"
    [] step = "loadVariants" -> "loadVariantsByIds"
    [] step = "eligibility" -> "checkSubscriptionEligibility"
    [] step = "graphql" -> "shopifyGraphqlRequest"
    [] step \in {"http", "custom", "smart"} -> "shopifyHTTPRequest"

CallSteps ==
  {"resolve", "loadShop", "loadVariants", "eligibility", "graphql", "http",
   "custom", "smart"}
LocalSteps == {"validate", "checkVariant", "unwrap", "customPage", "smartPage"}

\* What a method asks the remote for: the REST path or the GraphQL field.
Asks(fn) ==
  CASE fn = "loadShop" -> "shop.json"
    [] fn = "deletePriceRule" -> "price_rules"
    [] fn = "deleteDiscountCode" -> "discount_codes"
    [] fn = "loadOrder" -> "orders"
    [] fn = "loadCustomers" -> "customers.json"
    [] fn = "checkSubscriptionEligibility" -> "shop.features"
    [] fn = "completeDraftOrder" -> "draftOrderComplete"
    [] fn = "createBasicDiscountCode" -> "discountCodeBasicCreate"
    [] fn = "loadVariantsByIds" -> "nodes"
    [] OTHER -> fn

HttpMethod(fn) ==
  IF fn \in {"deletePriceRule", "deleteDiscountCode"} THEN "DELETE" ELSE "GET"

\* ---------------------------------------------------------------- frames
\* custom and smart are the locals customCollectionsNextPage and
\* smartCollectionsNextPage of loadCollections, as a template writes them.
Frame(fn, dom, req) ==
  [fn |-> fn, pc |-> 1, dom |-> dom, req |-> req, res |-> "none",
   custom |-> "undefined", smart |-> "undefined"]

Top == stack[Len(stack)]
Step(f) == Steps(f.fn)[f.pc]
Finished(f) == f.pc > Len(Steps(f.fn))
SetTop(f) == [stack EXCEPT ![Len(stack)] = f]

\* ------------------------------------------------------ error classifier
IsOk(status) == status >= OkLow /\ status <= OkHigh

\* The rules of the classifier, in priority order: 401/403 or an access
\* signal, then 402 or a payment signal, then another 4xx whose body
\* describes invalid fields, then everything else.
Classify(signal, status, ctx) ==
  IF status \in {401, 403} \/ signal = "access"
    THEN Err("ShopifyAuthorizationError", "none", status, NoList, ctx)
  ELSE IF status = 402 \/ signal = "payment"
    THEN Err("ShopifyPaymentError", "none", status, NoList, ctx)
  ELSE IF status >= 400 /\ status <= 499 /\ signal = "fields"
    THEN Err("ShopifyInputError", "none", status, NoList, ctx)
  ELSE Err("ShopifyRequestError", "none", status, NoList, ctx)

\* A REST failure is classified by its status and by a body that lists
\* invalid fields; the access and payment signals are GraphQL error codes.
getHttpShopifyError(responseError, status, ctx) ==
  Classify(IF responseError = "fields" THEN "fields" ELSE "generic",
           status, ctx)
getGraphqlShopifyError(responseError, status, ctx) ==
  Classify(responseError, status, ctx)
getGraphqlShopifyUserError(userErrors) ==
  Err("ShopifyUserError", "none", 0, userErrors, NoReq)

GeneralShopifyClientError(ctx) ==
  Err("GeneralShopifyClientError", "none", 0, NoList, ctx)
RangeError == Err("RangeError", "none", 0, NoList, NoReq)
TypeError == Err("TypeError", "none", 0, NoList, NoReq)
PlainError == Err("Error", "none", 0, NoList, NoReq)
InvalidInputError == Err("CustomError", "InvalidInputError", 0, NoList, NoReq)
VariantNotFound ==
  Err("ShopifyProductVariantNotFoundError", "none", 0, NoList, NoReq)
VariantNotAvailable ==
  Err("ShopifyProductVariantNotAvailableForSaleError", "none", 0, NoList,
      NoReq)

\* responseData.error ?? responseData.errors ?? responseData ?? status,
\* reduced to what the classifier reads from it.
ResponseError(rem) == IF rem.body = "errors" THEN rem.signal ELSE "generic"

\* ------------------------------------------------------------- transport
Thrown(e) == [thrown |-> e, val |-> "none"]
Returned(v) == [thrown |-> NoErr, val |-> v]

\* shopifyHTTPRequest that swallows a parse failure on the success path
\* and hands back an empty body.
HttpOutcome_SwallowsParseFailure(rem, req) ==
  IF rem.net = "fail" THEN Thrown(GeneralShopifyClientError(req))
  ELSE IF ~IsOk(rem.status) THEN
    IF rem.body = "null"
      THEN Thrown(GeneralShopifyClientError(req))
      ELSE Thrown(getHttpShopifyError(ResponseError(rem), rem.status, req))
  ELSE IF rem.body = "nonjson"
    THEN Returned("null")
    ELSE Returned(rem.body)

\* shopifyHTTPRequest, from the settled fetch to the return or the throw.
HttpOutcome(rem, req) ==
  IF rem.net = "fail" THEN Thrown(GeneralShopifyClientError(req))
  ELSE IF ~IsOk(rem.status) THEN
    \* response.json().catch(() => response.statusText)
    IF rem.body = "null"
      \* null.error throws inside the try; the catch wraps it
      THEN Thrown(GeneralShopifyClientError(req))
      ELSE Thrown(getHttpShopifyError(ResponseError(rem), rem.status, req))
  \* await response.json() on the success path
  ELSE IF rem.body = "nonjson"
    THEN Thrown(GeneralShopifyClientError(req))
    ELSE Returned(rem.body)

\* The failure test that looks at the status only.
GraphqlFailed_StatusOnly(rem) == ~IsOk(rem.status)

\* The test of line 252: !response.ok || responseData?.errors
GraphqlFailed(rem) == ~IsOk(rem.status) \/ rem.body = "errors"

\* shopifyGraphqlRequest, from the settled fetch to the return or the throw.
GraphqlOutcome(rem, req) ==
  IF rem.net = "fail" THEN Thrown(GeneralShopifyClientError(req))
  \* await response.json() comes before the status is looked at
  ELSE IF rem.body = "nonjson" THEN Thrown(GeneralShopifyClientError(req))
  ELSE IF GraphqlFailed(rem) THEN
    IF rem.body = "null"
      \* error.response.data.error on null throws inside the catch block
      THEN Thrown(TypeError)
      ELSE Thrown(getGraphqlShopifyError(ResponseError(rem), rem.status, req))
  ELSE Returned(rem.body)

\* --------------------------------------------------------------- logging
\* One call of a console method: who made it, the method, the error that
\* was passed (NoErr for a text), the request it is about.
Entry(by, level, error, req) ==
  [by |-> by, level |-> level, error |-> error, req |-> req]

\* The switch of lines 210-223 and 303-316.
Severity(shopifyError) ==
  IF shopifyError.cls \in {"ShopifyRequestError", "GeneralShopifyClientError"}
    THEN "error"
  ELSE IF shopifyError.cls \in {"ShopifyInputError",
                                "ShopifyAuthorizationError",
                                "ShopifyPaymentError"}
    THEN "debug"
  ELSE "warn"

\* What the catch block of a transport entry point writes for the error it
\* is about to throw.  An error raised inside the catch block itself
\* leaves the block before the switch.
CatchLogs(by, thrown, req) ==
  IF thrown = NoErr \/ thrown = TypeError
    THEN << >>
    ELSE << Entry(by, Severity(thrown), thrown, req) >>

\* shopifyHTTPRequest: everything thrown inside the try reaches the switch.
HttpLogs(rem, req) ==
  CatchLogs("shopifyHTTPRequest", HttpOutcome(rem, req).thrown, req)

\* shopifyGraphqlRequest: console.error of line 254 when the failure test
\* is true, then the catch block.
GraphqlLogs(rem, req) ==
  (IF rem.net = "ok" /\ rem.body # "nonjson" /\ GraphqlFailed(rem)
     THEN << Entry("shopifyGraphqlRequest", "error", NoErr, req) >>
     ELSE << >>)
  \o CatchLogs("shopifyGraphqlRequest", GraphqlOutcome(rem, req).thrown, req)

\* ----------------------------------------------------------- local steps
\* The bounds check that forgets the lower bound of a percentage and lets a
\* zero fixed amount through.
DiscountInputInvalid_UpperOnly(in) ==
  \/ in.valueType = "percentage" /\ in.value > One
  \/ in.valueType = "fixed_amount" /\ in.value < 0

\* createBasicDiscountCode, lines 372-400.
DiscountInputInvalid(in) ==
  \/ in.valueType = "percentage" /\ (in.value < 0 \/ in.value > One)
  \/ in.valueType = "fixed_amount" /\ in.value <= 0

\* The defects the checks at the top of a method throw for:
\* createProduct lines 1772-1774, updateProduct 1864-1866,
\* createProductVariantsBulk 1958-1963, setMetafields 2369-2378 (a value is
\* tested with === undefined, so null passes), createCollection 2464-2466.
Rejected(fn) ==
  CASE fn = "createProduct" -> {"title absent", "title blank"}
    [] fn = "updateProduct" -> {"id absent"}
    [] fn = "createProductVariantsBulk" ->
         {"productId absent", "variants absent", "variants empty"}
    [] fn = "setMetafields" ->
         {"metafields absent", "metafields empty", "key absent",
          "namespace absent", "ownerId absent", "type absent",
          "value absent"}
    [] fn = "createCollection" -> {"title absent", "title blank"}
    [] OTHER -> {}

\* Checks that let an absent value of a metafield through.
Validate_SkipsValue(fn, in) ==
  IF fn = "createBasicDiscountCode"
    THEN IF DiscountInputInvalid(in) THEN InvalidInputError ELSE NoErr
    ELSE IF in.defect \in Rejected(fn) \ {"value absent"}
      THEN PlainError ELSE NoErr

Validate(fn, in) ==
  IF fn = "createBasicDiscountCode"
    THEN IF DiscountInputInvalid(in) THEN InvalidInputError ELSE NoErr
    ELSE IF in.defect \in Rejected(fn) THEN PlainError ELSE NoErr

\* completeDraftOrder, lines 1339-1357, on what loadVariantsByIds returned.
CheckVariant(variants) ==
  IF variants = "missing" THEN VariantNotFound
  ELSE IF variants = "unavailable" THEN VariantNotAvailable
  ELSE NoErr

\* Methods that read a field of the payload node before they look at
\* userErrors (codeDiscountNode.id, draftOrder.order).
ReadsNodeFirst == {"createBasicDiscountCode", "completeDraftOrder"}
\* Methods that read a field of the payload node to build the result.
ReadsNodeLast ==
  {"createPriceRule", "createDiscountCode", "createDraftOrder",
   "subscribeWebhook", "createProduct", "updateProduct", "createCollection",
   "updateCollection"}
\* Methods that return without reading the response body.
IgnoresBody == {"deletePriceRule", "deleteDiscountCode"}

\* The statements after the last await of a method.
Unwrap(fn, res, rem) ==
  IF fn \in IgnoresBody THEN Returned("ok")
  ELSE IF fn = "loadShop" THEN Returned(res)
  ELSE IF res = "null" THEN Thrown(TypeError)
  ELSE IF fn = "getMyShopifyDomain" THEN Returned(Canonical)
  ELSE IF fn = "loadVariantsByIds" THEN Returned(rem.variant)
  ELSE IF fn = "checkSubscriptionEligibility"
    \* eligibleForSubscriptions && sellsSubscriptions
    THEN Returned(IF rem.eligible /\ rem.sells THEN "true" ELSE "false")
  ELSE IF fn = "tagCustomer" THEN
    IF Len(rem.userErrors) > 0 THEN Thrown(PlainError) ELSE Returned("true")
  ELSE IF fn \in MutationOps THEN
    IF fn \in ReadsNodeFirst /\ rem.nodeNull THEN Thrown(TypeError)
    ELSE IF Len(rem.userErrors) > 0
      THEN Thrown(getGraphqlShopifyUserError(rem.userErrors))
    ELSE IF fn \in ReadsNodeLast /\ rem.nodeNull THEN Thrown(TypeError)
    ELSE Returned("ok")
  ELSE Returned("ok")

\* ------------------------------------------------- Link header parsing
\* String.prototype.includes and the first two pieces of
\* String.prototype.split, on sequences of words.
Matches(s, pat) ==
  {i \in 1..(Len(s) - Len(pat) + 1) : SubSeq(s, i, i + Len(pat) - 1) = pat}
FirstMatch(s, pat) == CHOOSE i \in Matches(s, pat) :
                        \A j \in Matches(s, pat) : i <= j
includes(s, pat) == Matches(s, pat) # {}
Split0(s, pat) ==
  IF includes(s, pat) THEN SubSeq(s, 1, FirstMatch(s, pat) - 1) ELSE s
Split1(s, pat) ==
  IF includes(s, pat)
    THEN Defined(Split0(SubSeq(s, FirstMatch(s, pat) + Len(pat), Len(s)),
                        pat))
    ELSE Undefined

\* The words of a string written out in a row; "undefined" for undefined,
\* as a template literal writes it.
RECURSIVE Join(_)
Join(s) == IF s = << >> THEN "" ELSE Head(s) \o Join(Tail(s))
Text(v) == IF v.defined THEN Join(v.s) ELSE "undefined"

\* link.split("page_info=")[1].split('>; rel="next"')[0], which throws
\* TypeError when the first split has no second piece.
AfterPageInfo(s) ==
  IF Split1(s, PageInfoKey).defined
    THEN Returned(Defined(Split0(Split1(s, PageInfoKey).s, NextMarker)))
    ELSE Thrown(TypeError)

\* getShopifyOrdersNextPage, lines 125-137.
getShopifyOrdersNextPage(link) ==
  IF link.shape \in {"absent", "empty"} THEN Returned(Undefined)
  ELSE IF ~includes(link.text, <<"next">>) THEN Returned(Undefined)
  ELSE IF includes(link.text, <<"next">>)
          /\ includes(link.text, <<"previous">>)
    THEN IF Split1(link.text, RelPrevious).defined
           THEN AfterPageInfo(Split1(link.text, RelPrevious).s)
           ELSE Thrown(TypeError)
  ELSE AfterPageInfo(link.text)

\* loadCollections, lines 953-955: next?.split(",") and its first two
\* pieces.
customNext(next) ==
  IF next.defined THEN Defined(Split0(next.s, <<",">>)) ELSE Undefined
smartNext(next) ==
  IF next.defined THEN Split1(next.s, <<",">>) ELSE Undefined

\* The guards of lines 961 and 981: half !== "undefined".
Requested(half) == ~(half.defined /\ half.s = <<"undefined">>)

\* The guarded block a step of loadCollections belongs to is not entered.
Skipped(f, in) ==
  \/ Step(f) = "custom" /\ ~Requested(customNext(in.next))
  \/ Step(f) = "smart" /\ ~Requested(smartNext(in.next))

\* Lines 1001-1008: the cursor loadCollections returns, undefined written
\* as "undefined".
Falsy(text) == text \in {"undefined", ""}
OutgoingCursor(custom, smart) ==
  IF ~Falsy(custom) \/ ~Falsy(smart)
    THEN custom \o "," \o smart
    ELSE "undefined"

\* ------------------------------------------------------------ GlobalIds
\* id.startsWith('gid://shopify/')
startsWithGid(id) == Len(id) > 0 /\ id[1] = GidPrefix

\* A normalizer that prefixes whatever it is given.
ensureGid_AlwaysPrefixes(id, type) == Gid(type, id)

\* A normalizer that leaves the type segment out.
ensureGid_DropsType(id, type) ==
  IF startsWithGid(id) THEN id ELSE <<GidPrefix>> \o id

\* ensureGid, lines 2657-2662.
ensureGid(id, type) == IF startsWithGid(id) THEN id ELSE Gid(type, id)

\* inferResourceType, lines 2664-2676: the type of a GlobalId, else Product.
inferResourceType(ownerId) ==
  IF startsWithGid(ownerId) /\ Len(ownerId) >= 3 /\ ownerId[3] = "/"
    THEN ownerId[2] ELSE "Product"

\* Mutations that send a caller's id through ensureGid, with a fixed type.
EnsuresGid ==
  {"updateProduct", "createProductVariantsBulk", "updateProductVariantsBulk",
   "deleteProductVariantsBulk", "createCollection", "updateCollection"}
\* Mutations that write the prefix in front of the caller's id themselves.
PrefixesId == {"tagCustomer", "createPriceRule", "createBasicDiscountCode"}
\* Mutations that send the caller's id as it came.
SendsRawId ==
  {"createProductMedia", "createDraftOrder", "completeDraftOrder",
   "createDiscountCode", "deleteBasicDiscountCode", "unsubscribeWebhook"}
IdOps == EnsuresGid \cup PrefixesId \cup SendsRawId \cup {"setMetafields"}

\* The resource type of the id a mutation takes.
IdType(fn) ==
  CASE fn = "tagCustomer" -> "Customer"
    [] fn \in {"createPriceRule", "createBasicDiscountCode",
               "updateCollection"} -> "Collection"
    [] fn = "createDraftOrder" -> "ProductVariant"
    [] fn = "completeDraftOrder" -> "DraftOrder"
    [] fn = "createDiscountCode" -> "PriceRule"
    [] fn = "deleteBasicDiscountCode" -> "DiscountCodeNode"
    [] fn = "unsubscribeWebhook" -> "WebhookSubscription"
    [] OTHER -> "Product"

\* The id in the variables of the mutation a method sends.
SentId(fn, id) ==
  IF fn \in EnsuresGid THEN ensureGid(id, IdType(fn))
  ELSE IF fn = "setMetafields" THEN ensureGid(id, inferResourceType(id))
  ELSE IF fn \in PrefixesId THEN Gid(IdType(fn), id)
  ELSE IF fn \in SendsRawId THEN id
  ELSE << >>

\* ------------------------------------------------- discount variables
\* prepareBasicDiscountCodeVariable, lines 501-564: the three fields that
\* depend on isEligibleForSubscription, as JavaScript values.
prepareBasicDiscountCodeVariable(discountInput, isEligibleForSubscription) ==
  [appliesOnOneTimePurchase |->
     IF isEligibleForSubscription = "true" THEN "true" ELSE "undefined",
   appliesOnSubscription |->
     IF isEligibleForSubscription = "true" THEN "true" ELSE "undefined",
   recurringCycleLimit |->
     IF isEligibleForSubscription = "true"
       THEN IF discountInput.valueType = "fixed_amount" THEN "1" ELSE "null"
       ELSE "undefined"]

\* JSON.stringify (line 240): a key whose value is undefined is left out,
\* every other value is written.
Stringify(variables) ==
  [k \in DOMAIN variables |->
     IF variables[k] = "undefined" THEN "omitted" ELSE variables[k]]

\* --------------------------------------------------------------- actions
NoOutcome == [kind |-> "none", val |-> "none", err |-> NoErr]
DefaultInput ==
  [valueType |-> "percentage", value |-> 50, defect |-> "none",
   link |-> NoLinkHeader, next |-> Undefined, id |-> BareId,
   type |-> "Product"]

\* process.env of the server: a variable is absent, empty or set.
TokenValues == {"absent", "", CallerToken}
DomainValues == {"absent", "", Canonical}
Envs == [SHOPIFY_ACCESS_TOKEN : TokenValues, MYSHOPIFY_DOMAIN : DomainValues]
FullEnv ==
  [SHOPIFY_ACCESS_TOKEN |-> CallerToken, MYSHOPIFY_DOMAIN |-> Canonical]

\* The process: where its start-up is, whether it has exited and with what
\* status, whether server.connect has completed.
Proc(at) == [at |-> at, exited |-> FALSE, code |-> 0, connected |-> FALSE]
Exited(code) ==
  [at |-> "exited", exited |-> TRUE, code |-> code, connected |-> FALSE]
NoReply == [kind |-> "none", isError |-> FALSE, text |-> ""]

\* What belongs to one invocation: the handler's tool and reply, the
\* client call it awaits, the frames of that call.
Ctx(t, r, p, o, s, in, st, e, reqs, out) ==
  [tool |-> t, reply |-> r, phase |-> p, op |-> o, shop |-> s, input |-> in,
   stack |-> st, exc |-> e, requests |-> reqs, outcome |-> out]
NoCtx ==
  Ctx("none", NoReply, "idle", "none", Canonical, DefaultInput, << >>, NoErr,
      << >>, NoOutcome)
\* A finished tool call: the tool and its arguments, the requests it
\* issued, how its client call ended, what its handler returned.
Reference(t, in, reqs, out, r) ==
  [tool |-> t, input |-> in, requests |-> reqs, outcome |-> out, reply |-> r]
NoReference == Reference("none", DefaultInput, << >>, NoOutcome, NoReply)

\* Either a program that imports the client and calls it directly (the
\* test suite does), or the server process at the top of index.ts.
Init ==
  /\ phase = "idle"
  /\ op = "none"
  /\ shop = Canonical
  /\ input = DefaultInput
  /\ remote \in RemoteScripts
  /\ stack = << >>
  /\ exc = NoErr
  /\ requests = << >>
  /\ outcome = NoOutcome
  /\ \/ proc = Proc("library") /\ env = FullEnv
     \/ proc = Proc("token") /\ env \in Envs
  /\ tool = "none"
  /\ reply = NoReply
  /\ logs = << >>
  /\ parked = NoCtx
  /\ alone = NoReference
  /\ handled = 0

TakesInput(o) == o \in ValidatedMutations \cup {"createBasicDiscountCode"}

\* The defects an input of a method can have: those of the fields the
\* method takes.
DefectsOf(o) ==
  CASE o = "setMetafields" -> Rejected(o) \cup {"value null"}
    [] OTHER -> Rejected(o)

\* The arguments the model varies for a method: the discount or the
\* defect of the input, the cursor, and the form of the id (bare, or
\* the GlobalId of the method's resource type; for a metafield owner also
\* the GlobalId of a customer).
ArgsOf(o) ==
  {DefaultInput}
  \cup (IF o = "createBasicDiscountCode" THEN Inputs ELSE {})
  \cup (IF o \in ValidatedMutations
          THEN {[DefaultInput EXCEPT !.defect = d] : d \in DefectsOf(o)}
          ELSE {})
  \cup (IF o \in PagedOps THEN CollectionInputs ELSE {})
  \cup (IF o \in IdOps
          THEN {[DefaultInput EXCEPT !.id = Gid(IdType(o), BareId)]}
          ELSE {})
  \cup (IF o = "setMetafields"
          THEN {[DefaultInput EXCEPT !.id = Gid("Customer", BareId)]}
          ELSE {})

\* The request a direct call of a transport entry point describes.
DirectReq(o, handle) ==
  [via |-> IF o = "shopifyHTTPRequest" THEN "http" ELSE "graphql",
   method |-> IF o = "shopifyHTTPRequest" THEN "GET" ELSE "POST",
   host |-> handle, asks |-> "any", token |-> CallerToken, id |-> << >>,
   variables |-> NoVariables]

\* A caller invokes one public method of a fresh client.
Invoke ==
  /\ proc.at = "library"
  /\ phase = "idle"
  /\ \E o \in PublicOps, h \in Handles :
     \E in \in ArgsOf(o) :
       /\ op' = o
       /\ shop' = h
       /\ input' = in
       /\ stack' = << Frame(o,
                            IF o \in DirectOps THEN h ELSE "none",
                            IF o \in TransportOps THEN DirectReq(o, h)
                                                  ELSE NoReq) >>
  /\ phase' = "running"
  /\ UNCHANGED <<remote, exc, requests, outcome>>
  /\ UNCHANGED hostVars

Running == phase = "running" /\ exc = NoErr /\ stack # << >>

\* A statement sequence without an await: input checks, the variant
\* checks, the unwrapping of a response.
LocalStep ==
  /\ Running
  /\ ~Finished(Top)
  /\ Step(Top) \in LocalSteps
  /\ LET f == Top
         r == CASE Step(f) = "validate" -> Thrown(Validate(f.fn, input))
                [] Step(f) = "checkVariant" -> Thrown(CheckVariant(f.res))
                [] Step(f) = "customPage" ->
                     getShopifyOrdersNextPage(remote.customLink)
                [] Step(f) = "smartPage" ->
                     getShopifyOrdersNextPage(remote.smartLink)
                [] Step(f) = "unwrap" ->
                     IF f.fn \in PagedOps
                       THEN Returned(OutgoingCursor(f.custom, f.smart))
                       ELSE Unwrap(f.fn, f.res, remote)
     IN IF r.thrown # NoErr
          THEN /\ exc' = r.thrown
               /\ UNCHANGED stack
          ELSE /\ exc' = NoErr
               /\ stack' = SetTop([f EXCEPT
                    !.pc = f.pc + 1,
                    !.res = IF Step(f) = "unwrap" THEN r.val ELSE f.res,
                    !.custom = IF Step(f) = "customPage"
                                 THEN Text(r.val) ELSE f.custom,
                    !.smart = IF Step(f) = "smartPage"
                                THEN Text(r.val) ELSE f.smart])
  /\ UNCHANGED <<phase, op, shop, input, remote, requests, outcome>>
  /\ UNCHANGED hostVars

\* The request a method hands to a transport entry point.
RequestOf(f, step) ==
  IF step = "graphql"
    THEN [via |-> "graphql", method |-> "POST", host |-> f.dom,
          asks |-> Asks(f.fn), token |-> CallerToken,
          id |-> SentId(f.fn, input.id),
          variables |-> IF f.fn = "createBasicDiscountCode"
                          THEN Stringify(
                                 prepareBasicDiscountCodeVariable(input, f.res))
                          ELSE NoVariables]
  ELSE IF step = "http"
    THEN [via |-> "http", method |-> HttpMethod(f.fn), host |-> f.dom,
          asks |-> Asks(f.fn), token |-> CallerToken, id |-> << >>,
          variables |-> NoVariables]
  ELSE IF step \in {"custom", "smart"}
    THEN [via |-> "http", method |-> "GET", host |-> f.dom,
          asks |-> IF step = "custom" THEN "custom_collections.json"
                                      ELSE "smart_collections.json",
          token |-> CallerToken, id |-> << >>, variables |-> NoVariables]
  ELSE NoReq

\* The frame of the method that getMyShopifyDomain and loadShop call.
CalleeFrame(f, step) ==
  Frame(Callee(step),
        IF step = "eligibility" THEN f.dom ELSE "none",
        RequestOf(f, step))

\* await this.someMethod(...): the callee starts running.  A guarded call
\* of loadCollections whose guard is false is passed over together with
\* the statements of its block.
Call ==
  /\ Running
  /\ ~Finished(Top)
  /\ Step(Top) \in CallSteps
  /\ Skipped(Top, input) \/ Len(stack) < StackLimit
  /\ stack' = IF Skipped(Top, input)
                THEN SetTop([Top EXCEPT !.pc = Top.pc + 2])
                ELSE Append(stack, CalleeFrame(Top, Step(Top)))
  /\ UNCHANGED <<phase, op, shop, input, remote, exc, requests, outcome>>
  /\ UNCHANGED hostVars

\* The same call when the runtime has no room for one more frame: the call
\* throws RangeError (Maximum call stack size exceeded) in the caller.
StackOverflow ==
  /\ Running
  /\ ~Finished(Top)
  /\ Step(Top) \in CallSteps
  /\ ~Skipped(Top, input)
  /\ Len(stack) >= StackLimit
  /\ exc' = RangeError
  /\ UNCHANGED <<phase, op, shop, input, remote, stack, requests, outcome>>
  /\ UNCHANGED hostVars

\* A transport whose client is shared by the handlers and keeps the
\* requests in flight: a request another invocation is already waiting
\* for is not sent again.
Fetch_SharedCache ==
  /\ Running
  /\ ~Finished(Top)
  /\ Step(Top) = "fetch"
  /\ requests' = IF \E k \in 1..Len(parked.requests) :
                       parked.requests[k] = Top.req
                   THEN requests
                   ELSE Append(requests, Top.req)
  /\ stack' = SetTop([Top EXCEPT !.pc = Top.pc + 1])
  /\ UNCHANGED <<phase, op, shop, input, remote, exc, outcome>>
  /\ UNCHANGED hostVars

\* A transport that sends its request a second time.
Fetch_IssuesTwice ==
  /\ Running
  /\ ~Finished(Top)
  /\ Step(Top) = "fetch"
  /\ requests' = Append(Append(requests, Top.req), Top.req)
  /\ stack' = SetTop([Top EXCEPT !.pc = Top.pc + 1])
  /\ UNCHANGED <<phase, op, shop, input, remote, exc, outcome>>
  /\ UNCHANGED hostVars

\* await fetch(url, ...): the one place a request leaves the process.
Fetch ==
  /\ Running
  /\ ~Finished(Top)
  /\ Step(Top) = "fetch"
  /\ requests' = Append(requests, Top.req)
  /\ stack' = SetTop([Top EXCEPT !.pc = Top.pc + 1])
  /\ UNCHANGED <<phase, op, shop, input, remote, exc, outcome>>
  /\ UNCHANGED hostVars

\* The transport method on top of the stack throws or returns.
Settle(r) ==
  IF r.thrown # NoErr
    THEN /\ exc' = r.thrown
         /\ UNCHANGED stack
    ELSE /\ exc' = NoErr
         /\ stack' = SetTop([Top EXCEPT !.pc = Top.pc + 1, !.res = r.val])

\* The fetch of shopifyHTTPRequest settles.
HTTPRespond ==
  /\ Running
  /\ ~Finished(Top)
  /\ Top.fn = "shopifyHTTPRequest"
  /\ Step(Top) = "respond"
  /\ Settle(HttpOutcome(remote, Top.req))
  /\ logs' = logs \o HttpLogs(remote, Top.req)
  /\ UNCHANGED <<phase, op, shop, input, remote, requests, outcome>>
  /\ UNCHANGED <<env, proc, tool, reply>>
  /\ UNCHANGED loopVars

\* The fetch of shopifyGraphqlRequest settles.
GraphqlRespond ==
  /\ Running
  /\ ~Finished(Top)
  /\ Top.fn = "shopifyGraphqlRequest"
  /\ Step(Top) = "respond"
  /\ Settle(GraphqlOutcome(remote, Top.req))
  /\ logs' = logs \o GraphqlLogs(remote, Top.req)
  /\ UNCHANGED <<phase, op, shop, input, remote, requests, outcome>>
  /\ UNCHANGED <<env, proc, tool, reply>>
  /\ UNCHANGED loopVars

\* A method returns: its promise resolves and the awaiting caller resumes.
Return ==
  /\ Running
  /\ Finished(Top)
  /\ LET v == Top.res
         rest == SubSeq(stack, 1, Len(stack) - 1)
     IN IF rest = << >>
          THEN /\ stack' = rest
               /\ phase' = "done"
               /\ outcome' = [kind |-> "result", val |-> v, err |-> NoErr]
          ELSE LET c == rest[Len(rest)]
               IN /\ stack' = [rest EXCEPT ![Len(rest)] =
                                 [c EXCEPT !.pc = c.pc + 1,
                                           !.res = v,
                                           !.dom = IF Step(c) = "resolve"
                                                     THEN v ELSE c.dom]]
                  /\ UNCHANGED <<phase, outcome>>
  /\ UNCHANGED <<op, shop, input, remote, exc, requests>>
  /\ UNCHANGED hostVars

\* A domain operation that catches what it awaited and throws an error of
\* its own in its place.
Propagate_Wraps ==
  /\ phase = "running"
  /\ exc # NoErr
  /\ stack # << >>
  /\ LET rest == SubSeq(stack, 1, Len(stack) - 1)
     IN /\ stack' = rest
        /\ IF rest = << >>
             THEN /\ phase' = "done"
                  /\ outcome' = [kind |-> "error", val |-> "none",
                                 err |-> IF op \in DomainOps
                                           THEN GeneralShopifyClientError(NoReq)
                                           ELSE exc]
                  /\ exc' = NoErr
             ELSE UNCHANGED <<phase, outcome, exc>>
  /\ UNCHANGED <<op, shop, input, remote, requests>>
  /\ UNCHANGED hostVars

\* A method throws: its promise rejects, and the awaiting caller, which has
\* no try around the await, rejects in turn.
Propagate ==
  /\ phase = "running"
  /\ exc # NoErr
  /\ stack # << >>
  /\ LET rest == SubSeq(stack, 1, Len(stack) - 1)
     IN /\ stack' = rest
        /\ IF rest = << >>
             THEN /\ phase' = "done"
                  /\ outcome' = [kind |-> "error", val |-> "none", err |-> exc]
                  /\ exc' = NoErr
             ELSE UNCHANGED <<phase, outcome, exc>>
  /\ UNCHANGED <<op, shop, input, remote, requests>>
  /\ UNCHANGED hostVars

\* --------------------------------------------------- static methods
\* A caller applies the static method to a header.
ParseLink ==
  /\ proc.at = "library"
  /\ phase = "idle"
  /\ \E link \in LinkHeaders :
       LET r == getShopifyOrdersNextPage(link)
       IN /\ op' = "getShopifyOrdersNextPage"
          /\ input' = [DefaultInput EXCEPT !.link = link]
          /\ outcome' = IF r.thrown # NoErr
                          THEN [kind |-> "error", val |-> "none",
                                err |-> r.thrown]
                          ELSE [kind |-> "result", val |-> Text(r.val),
                                err |-> NoErr]
  /\ phase' = "done"
  /\ UNCHANGED <<shop, remote, stack, exc, requests>>
  /\ UNCHANGED hostVars

\* A caller applies ensureGid to an id and a resource type.
NormalizeId ==
  /\ proc.at = "library"
  /\ phase = "idle"
  /\ \E id \in Ids, type \in ResourceTypes :
       /\ op' = "ensureGid"
       /\ input' = [DefaultInput EXCEPT !.id = id, !.type = type]
       /\ outcome' = [kind |-> "result", val |-> Join(ensureGid(id, type)),
                      err |-> NoErr]
  /\ phase' = "done"
  /\ UNCHANGED <<shop, remote, stack, exc, requests>>
  /\ UNCHANGED hostVars

\* ------------------------------------------------------------ the server
\* process.exit(1)
ExitFailure == 1

\* A test that takes the empty string for a value.
Missing_UndefinedOnly(value) == value = "absent"

\* !value, for an environment variable: undefined or the empty string.
Missing(value) == value = "absent" \/ value = ""

\* console.error of index.ts: a text, or a text and an error.
ServerLog(error) == Entry("index", "error", error, NoReq)

\* Lines 21-25.
CheckToken ==
  /\ proc.at = "token"
  /\ proc' = IF Missing(env.SHOPIFY_ACCESS_TOKEN)
               THEN Exited(ExitFailure) ELSE Proc("domain")
  /\ logs' = IF Missing(env.SHOPIFY_ACCESS_TOKEN)
               THEN Append(logs, ServerLog(NoErr)) ELSE logs
  /\ UNCHANGED <<phase, op, shop, input, remote, stack, exc, requests,
                 outcome, env, tool, reply>>
  /\ UNCHANGED loopVars

\* Lines 27-31.
CheckDomain ==
  /\ proc.at = "domain"
  /\ proc' = IF Missing(env.MYSHOPIFY_DOMAIN)
               THEN Exited(ExitFailure) ELSE Proc("main")
  /\ logs' = IF Missing(env.MYSHOPIFY_DOMAIN)
               THEN Append(logs, ServerLog(NoErr)) ELSE logs
  /\ UNCHANGED <<phase, op, shop, input, remote, stack, exc, requests,
                 outcome, env, tool, reply>>
  /\ UNCHANGED loopVars

\* main(): server.connect(transport) resolves, or rejects and the catch of
\* line 1055 exits.
main ==
  /\ proc.at = "main"
  /\ \E connects \in BOOLEAN :
       /\ proc' = IF connects
                    THEN [Proc("serving") EXCEPT !.connected = TRUE]
                    ELSE Exited(ExitFailure)
       /\ logs' = Append(logs, ServerLog(IF connects THEN NoErr
                                                     ELSE PlainError))
  /\ UNCHANGED <<phase, op, shop, input, remote, stack, exc, requests,
                 outcome, env, tool, reply>>
  /\ UNCHANGED loopVars

\* The tools, with manage-webhook split by its action argument.
ToolMethod ==
  [t \in {"get-products"} |-> "loadProducts"] @@
  [t \in {"get-products-by-collection"} |-> "loadProductsByCollectionId"] @@
  [t \in {"get-products-by-ids"} |-> "loadProductsByIds"] @@
  [t \in {"get-variants-by-ids"} |-> "loadVariantsByIds"] @@
  [t \in {"get-customers"} |-> "loadCustomers"] @@
  [t \in {"tag-customer"} |-> "tagCustomer"] @@
  [t \in {"get-orders"} |-> "loadOrders"] @@
  [t \in {"get-order"} |-> "loadOrder"] @@
  [t \in {"create-discount"} |-> "createBasicDiscountCode"] @@
  [t \in {"create-draft-order"} |-> "createDraftOrder"] @@
  [t \in {"complete-draft-order"} |-> "completeDraftOrder"] @@
  [t \in {"get-collections"} |-> "loadCollections"] @@
  [t \in {"get-shop"} |-> "loadShop"] @@
  [t \in {"get-shop-details"} |-> "loadShopDetail"] @@
  [t \in {"manage-webhook/subscribe"} |-> "subscribeWebhook"] @@
  [t \in {"manage-webhook/find"} |-> "findWebhookByTopicAndCallbackUrl"] @@
  [t \in {"manage-webhook/unsubscribe"} |-> "unsubscribeWebhook"] @@
  [t \in {"create-product"} |-> "createProduct"] @@
  [t \in {"update-product"} |-> "updateProduct"] @@
  [t \in {"create-product-variants-bulk"} |-> "createProductVariantsBulk"] @@
  [t \in {"update-product-variants-bulk"} |-> "updateProductVariantsBulk"] @@
  [t \in {"delete-product-variants-bulk"} |-> "deleteProductVariantsBulk"] @@
  [t \in {"create-staged-uploads"} |-> "createStagedUploads"] @@
  [t \in {"create-product-media"} |-> "createProductMedia"] @@
  [t \in {"set-metafields"} |-> "setMetafields"] @@
  [t \in {"create-collection"} |-> "createCollection"] @@
  [t \in {"update-collection"} |-> "updateCollection"]

Tools == DOMAIN ToolMethod

\* The first argument of each handler's call of handleError.
DefaultMessage(t) ==
  CASE t = "get-products" -> "Failed to retrieve products data"
    [] t = "get-products-by-collection" ->
         "Failed to retrieve products from collection"
    [] t = "get-products-by-ids" -> "Failed to retrieve products by IDs"
    [] t = "get-variants-by-ids" -> "Failed to retrieve variants"
    [] t = "get-customers" -> "Failed to retrieve customers data"
    [] t = "tag-customer" -> "Failed to tag customer"
    [] t = "get-orders" -> "Failed to retrieve orders data"
    [] t = "get-order" -> "Failed to retrieve order"
    [] t = "create-discount" -> "Failed to create discount"
    [] t = "create-draft-order" -> "Failed to create draft order"
    [] t = "complete-draft-order" -> "Failed to complete draft order"
    [] t = "get-collections" -> "Failed to retrieve collections"
    [] t = "get-shop" -> "Failed to retrieve shop details"
    [] t = "get-shop-details" -> "Failed to retrieve extended shop details"
    [] t \in {"manage-webhook/subscribe", "manage-webhook/find",
              "manage-webhook/unsubscribe"} -> "Failed to manage webhook"
    [] t = "create-product" -> "Failed to create product"
    [] t = "update-product" -> "Failed to update product"
    [] t = "create-product-variants-bulk" ->
         "Failed to create product variants"
    [] t = "update-product-variants-bulk" ->
         "Failed to update product variants"
    [] t = "delete-product-variants-bulk" ->
         "Failed to delete product variants"
    [] t = "create-staged-uploads" -> "Failed to create staged uploads"
    [] t = "create-product-media" -> "Failed to create product media"
    [] t = "set-metafields" -> "Failed to set metafields"
    [] t = "create-collection" -> "Failed to create collection"
    [] t = "update-collection" -> "Failed to update collection"

\* The classes whose instances are instances of Error.
ErrorClasses ==
  {"Error", "TypeError", "RangeError", "CustomError",
   "ShopifyAuthorizationError", "ShopifyInputError", "ShopifyPaymentError",
   "ShopifyRequestError", "GeneralShopifyClientError",
   "ShopifyProductVariantNotFoundError",
   "ShopifyProductVariantNotAvailableForSaleError", "ShopifyUserError"}
InstanceOfError(error) == error.cls \in ErrorClasses
\* error.message and String(error): texts that belong to the error.
Message(error) == "message of " \o error.cls
String(error) == "string of " \o error.cls

Payload(isError, text) ==
  [kind |-> "payload", isError |-> isError, text |-> text]

\* A handler that reports the default message alone.
handleError_DropsMessage(defaultMessage, error) ==
  Payload(TRUE, defaultMessage)

\* handleError, lines 1028-1047.
handleError(defaultMessage, error) ==
  Payload(TRUE,
          IF InstanceOfError(error)
            THEN defaultMessage \o ": " \o Message(error)
            ELSE defaultMessage \o ": " \o String(error))

\* The arguments the model varies for a tool: those of its method, but
\* get-collections passes no cursor, and unsubscribe may lack a webhookId.
ToolArgs(t) ==
  IF ToolMethod[t] \in PagedOps THEN {DefaultInput}
  ELSE ArgsOf(ToolMethod[t]) \cup
       (IF t = "manage-webhook/unsubscribe"
          THEN {[DefaultInput EXCEPT !.defect = "webhookId absent"]}
          ELSE {})

\* The tools a client calls again, and at the same time, once its first
\* call has been answered: two that reach fetch and one that does not.
LoadTools == {"get-products", "create-draft-order", "get-orders"}

\* The protocol layer calls a tool's handler: new ShopifyClient(), then
\* the code up to the first await.  manage-webhook throws on its own when
\* asked to unsubscribe without a webhookId, inside its try.
ToolCall ==
  /\ proc.connected
  /\ tool = "none"
  /\ phase = "idle"
  /\ handled < MaxCalls
  /\ parked = NoCtx \/ handled > SoloCalls
  /\ \E t \in (IF handled = 0 THEN Tools ELSE LoadTools) :
     \E in \in ToolArgs(t) :
       /\ tool' = t
       /\ input' = in
       /\ IF t = "manage-webhook/unsubscribe"
             /\ in.defect = "webhookId absent"
            THEN /\ reply' = handleError(DefaultMessage(t), PlainError)
                 /\ logs' = Append(logs, ServerLog(PlainError))
                 /\ UNCHANGED <<phase, op, shop, stack>>
            ELSE /\ reply' = NoReply
                 /\ UNCHANGED logs
                 /\ op' = ToolMethod[t]
                 /\ shop' = env.MYSHOPIFY_DOMAIN
                 /\ stack' = << Frame(ToolMethod[t],
                                      IF ToolMethod[t] \in DirectOps
                                        THEN env.MYSHOPIFY_DOMAIN ELSE "none",
                                      NoReq) >>
                 /\ phase' = "running"
  /\ handled' = handled + 1
  /\ UNCHANGED <<remote, exc, requests, outcome, env, proc, parked, alone>>

\* The text a handler writes for the result of its client call; the
\* tag-customer handler (lines 260-267) chooses between two texts.
ResultText(t, val) ==
  IF t = "tag-customer"
    THEN IF val = "true" THEN "Successfully tagged customer"
                         ELSE "Failed to tag customer"
    ELSE "text of " \o val

\* The handler resumes after its await: it returns the result as text, or
\* its catch returns what handleError builds.
ToolReturn ==
  /\ tool # "none"
  /\ phase = "done"
  /\ reply = NoReply
  /\ reply' = IF outcome.kind = "result"
                THEN Payload(FALSE, ResultText(tool, outcome.val))
                ELSE handleError(DefaultMessage(tool), outcome.err)
  /\ logs' = IF outcome.kind = "result"
               THEN logs ELSE Append(logs, ServerLog(outcome.err))
  /\ UNCHANGED <<phase, op, shop, input, remote, stack, exc, requests,
                 outcome, env, proc, tool>>
  /\ UNCHANGED loopVars

\* ------------------------------------------------ concurrent tool calls
\* The invocation the event loop is running.
Current ==
  Ctx(tool, reply, phase, op, shop, input, stack, exc, requests, outcome)

\* An invocation stands at the await of fetch (lines 163 and 235): its
\* request is out and the response has not settled.
Suspended(c) ==
  /\ c.phase = "running"
  /\ c.exc = NoErr
  /\ c.stack # << >>
  /\ LET f == c.stack[Len(c.stack)]
     IN /\ f.fn \in TransportOps
        /\ ~Finished(f)
        /\ Step(f) = "respond"

\* The event loop leaves an invocation at its await of fetch and turns to
\* the other one, whose response has arrived, or to a free handler slot.
\* The locals of each async function, its client included, stay with it.
Switch ==
  /\ proc.connected
  /\ Suspended(Current) \/ Current = NoCtx
  /\ Suspended(parked) \/ parked = NoCtx
  /\ Current # parked
  /\ parked' = Current
  /\ tool' = parked.tool
  /\ reply' = parked.reply
  /\ phase' = parked.phase
  /\ op' = parked.op
  /\ shop' = parked.shop
  /\ input' = parked.input
  /\ stack' = parked.stack
  /\ exc' = parked.exc
  /\ requests' = parked.requests
  /\ outcome' = parked.outcome
  /\ UNCHANGED <<remote, env, proc, logs, alone, handled>>

\* The payload a handler returned goes out to the client and the handler's
\* locals are gone.  What the first call ended with is kept for
\* comparison.
Deliver ==
  /\ tool # "none"
  /\ reply # NoReply
  /\ alone' = IF handled = SoloCalls /\ tool \in LoadTools
                THEN Reference(tool, input, requests, outcome, reply)
                ELSE alone
  /\ tool' = "none"
  /\ reply' = NoReply
  /\ phase' = "idle"
  /\ op' = "none"
  /\ shop' = Canonical
  /\ input' = DefaultInput
  /\ stack' = << >>
  /\ exc' = NoErr
  /\ requests' = << >>
  /\ outcome' = NoOutcome
  /\ UNCHANGED <<remote, env, proc, logs, parked, handled>>

Next ==
  \/ CheckToken
  \/ CheckDomain
  \/ main
  \/ ToolCall
  \/ ToolReturn
  \/ ParseLink
  \/ NormalizeId
  \/ Invoke
  \/ LocalStep
  \/ Call
  \/ StackOverflow
  \/ Fetch
  \/ HTTPRespond
  \/ GraphqlRespond
  \/ Return
  \/ Propagate

Spec == Init /\ [][Next]_vars

\* The scheduler runs every enabled continuation, and every request is
\* answered.
FairSpec == Spec /\ WF_vars(Next)

\* The server under load: a first tool call that runs by itself, then
\* calls that arrive while another one awaits its response.  The remotes
\* vary what the tools under load read.
LoadRemotes ==
  {r \in WireScripts \cup StoreScripts :
     r.variant = "available" /\ r.eligible}

InitUnderLoad ==
  /\ phase = "idle"
  /\ op = "none"
  /\ shop = Canonical
  /\ input = DefaultInput
  /\ remote \in LoadRemotes
  /\ stack = << >>
  /\ exc = NoErr
  /\ requests = << >>
  /\ outcome = NoOutcome
  /\ proc = Proc("token")
  /\ env = FullEnv
  /\ tool = "none"
  /\ reply = NoReply
  /\ logs = << >>
  /\ parked = NoCtx
  /\ alone = NoReference
  /\ handled = 0

\* No tool reaches shopifyHTTPRequest (every tool that would resolves the
\* domain first), so its response never settles here.
NextUnderLoad ==
  \/ CheckToken
  \/ CheckDomain
  \/ main
  \/ ToolCall
  \/ ToolReturn
  \/ Deliver
  \/ Switch
  \/ LocalStep
  \/ Call
  \/ StackOverflow
  \/ Fetch
  \/ GraphqlRespond
  \/ Return
  \/ Propagate

LoadSpec == InitUnderLoad /\ [][NextUnderLoad]_vars

TypeOK ==
  /\ phase \in {"idle", "running", "done"}
  /\ remote \in RemoteScripts
  /\ Len(stack) <= StackLimit
  /\ outcome.kind \in {"none", "result", "error"}
  /\ env \in Envs
  /\ proc.at \in {"library", "token", "domain", "main", "serving", "exited"}
  /\ tool \in Tools \cup {"none"}
  /\ reply.kind \in {"none", "payload"}
  /\ \A i \in 1..Len(logs) : logs[i].level \in {"error", "debug", "warn"}
  /\ parked.phase \in {"idle", "running"}
  /\ alone.tool \in Tools \cup {"none"}
  /\ handled \in 0..MaxCalls
  /\ input.defect \in Defects \cup {"none"}

\* ================================================================ claims
Done == phase = "done"
Failed == Done /\ outcome.kind = "error"
Succeeded == Done /\ outcome.kind = "result"

\* The remote answers every request with a 2xx status and a well-formed
\* body without top-level errors.
RemoteSucceeds ==
  remote.net = "ok" /\ remote.status = 200 /\ remote.body = "data"

\* The caller's input passes the method's own local checks.
InputAccepted ==
  /\ op \in ValidatedMutations =>
       input.defect \in {"none", "value null"}
  /\ op = "createBasicDiscountCode" =>
       /\ input.valueType = "percentage" =>
            input.value >= 0 /\ input.value <= 100
       /\ input.valueType = "fixed_amount" => input.value > 0

ShopLookups == {i \in 1..Len(requests) : requests[i].asks = "shop.json"}
IssuedVia(via) == \E i \in 1..Len(requests) : requests[i].via = via
Issued(asks) == \E i \in 1..Len(requests) : requests[i].asks = asks

\* C1: every invocation of a domain operation finishes through its own
\* finite sequence of steps, with one result or one error of the operation;
\* it is never ended by the runtime because its chain of calls
\* (getMyShopifyDomain, loadShop) exhausted the call stack.
C1_FinishesWithResultOrError ==
  Done /\ op \in DomainOps =>
    \/ outcome.kind = "result"
    \/ outcome.kind = "error" /\ outcome.err.cls # "RangeError"

\* C2: a finished domain operation whose input was accepted has issued
\* exactly one shop lookup (GET shop.json with the caller's token), and it
\* is the first request of the invocation.
C2_ResolvedExactlyOnce ==
  Done /\ op \in DomainOps /\ InputAccepted =>
    /\ Cardinality(ShopLookups) = 1
    /\ requests[1].asks = "shop.json"
    /\ requests[1].via = "http"
    /\ requests[1].method = "GET"
    /\ requests[1].token = CallerToken

\* C3: in a domain operation every request other than the shop lookup goes
\* to the canonical domain that an earlier shop lookup returned, not to the
\* handle the caller supplied.
C3_RequestsUseCanonicalDomain ==
  op \in DomainOps =>
    \A i \in 1..Len(requests) :
      requests[i].asks # "shop.json" =>
        /\ requests[i].host = Canonical
        /\ \E j \in 1..(i - 1) : requests[j].asks = "shop.json"

\* C4: against a remote that answers every request successfully and whose
\* mutation payload carries a non-empty userErrors list, a mutation-calling
\* operation fails with UserError carrying exactly that list.
C4_UserErrorsSurface ==
  ( /\ Done
    /\ op \in MutationOps
    /\ InputAccepted
    /\ RemoteSucceeds
    /\ remote.variant = "available"
    /\ Len(remote.userErrors) > 0 ) =>
      /\ outcome.kind = "error"
      /\ outcome.err.cls = "ShopifyUserError"
      /\ outcome.err.userErrors = remote.userErrors

\* The InputError of a local check: the CustomError with code
\* InvalidInputError, or the classifier's ShopifyInputError.
IsInputError(e) ==
  \/ e.cls = "ShopifyInputError"
  \/ e.cls = "CustomError" /\ e.code = "InvalidInputError"

\* A percentage outside [0,1] or a fixed amount that is not positive.
DiscountOutOfRange ==
  \/ input.valueType = "percentage" /\ (input.value < 0 \/ input.value > 100)
  \/ input.valueType = "fixed_amount" /\ input.value <= 0

\* C5: createBasicDiscountCode with a percentage outside [0,1] or a fixed
\* amount <= 0 never calls another method and never issues a request, and
\* it ends with InputError.
C5_DiscountRejectedLocally ==
  op = "createBasicDiscountCode" /\ DiscountOutOfRange =>
    /\ requests = << >>
    /\ Len(stack) <= 1
    /\ Done => outcome.kind = "error" /\ IsInputError(outcome.err)

C5_Witness ==
  /\ Done
  /\ op = "createBasicDiscountCode"
  /\ input.valueType = "percentage"
  /\ input.value > 100
  /\ outcome.kind = "error"
  /\ IsInputError(outcome.err)
  /\ requests = << >>

\* C6: against a remote that answers every request successfully,
\* completeDraftOrder fails with VariantNotFoundError when the store has no
\* such variant, fails with VariantNotAvailableForSaleError when the
\* variant is not for sale, and sends the draftOrderComplete mutation when
\* it is.
C6_VariantPrecheckOutcome ==
  Done /\ op = "completeDraftOrder" /\ RemoteSucceeds =>
    /\ remote.variant = "missing" =>
         Failed /\ outcome.err.cls = "ShopifyProductVariantNotFoundError"
    /\ remote.variant = "unavailable" =>
         /\ Failed
         /\ outcome.err.cls = "ShopifyProductVariantNotAvailableForSaleError"
    /\ remote.variant = "available" => Issued("draftOrderComplete")

\* Request a was issued before request b.
IssuedBefore(a, b) ==
  \E i, j \in 1..Len(requests) :
    i < j /\ requests[i].asks = a /\ requests[j].asks = b

PrecheckOf(o) == IF o = "completeDraftOrder" THEN "nodes" ELSE "shop.features"

\* C7: completeDraftOrder and createBasicDiscountCode run resolve domain,
\* pre-check read, mutation in that order: a mutation in the request log
\* comes after the answered pre-check read (which found the variant for
\* sale), and against a remote that answers every request successfully the
\* finished operation has issued the shop lookup, then the pre-check read,
\* then the mutation.
C7_ResolvePrecheckMutate ==
  /\ \A k \in 1..Len(requests) :
       /\ requests[k].asks = "draftOrderComplete" =>
            /\ RemoteSucceeds /\ remote.variant = "available"
            /\ \E j \in 1..(k - 1) : requests[j].asks = "nodes"
       /\ requests[k].asks = "discountCodeBasicCreate" =>
            /\ RemoteSucceeds
            /\ \E j \in 1..(k - 1) : requests[j].asks = "shop.features"
  /\ ( /\ Done
       /\ op \in {"completeDraftOrder", "createBasicDiscountCode"}
       /\ InputAccepted
       /\ RemoteSucceeds
       /\ remote.variant = "available" ) =>
         /\ IssuedBefore("shop.json", PrecheckOf(op))
         /\ IssuedBefore(PrecheckOf(op), Asks(op))

\* The errors the classifier produces for a failed transport call.
ClassifiedErrors ==
  {"ShopifyAuthorizationError", "ShopifyPaymentError", "ShopifyInputError",
   "ShopifyRequestError"}

\* The call of a transport entry point has returned to its caller.
TransportReturned(fn) ==
  \/ \E i \in 1..Len(stack) : stack[i].fn = fn /\ Finished(stack[i])
  \/ Succeeded

\* C8: when the remote answers a GraphQL request with HTTP 200 and a
\* non-empty top-level errors array, shopifyGraphqlRequest never returns a
\* body: it throws RequestError or a more specific classified error, and
\* that is how the invocation ends.
C8_GraphqlErrorsAreFailures ==
  ( /\ IssuedVia("graphql")
    /\ remote.net = "ok"
    /\ remote.status = 200
    /\ remote.body = "errors" ) =>
      /\ ~TransportReturned("shopifyGraphqlRequest")
      /\ exc # NoErr => exc.cls \in ClassifiedErrors
      /\ Done => outcome.kind = "error" /\ outcome.err.cls \in ClassifiedErrors

C8_Witness ==
  /\ Done
  /\ op = "shopifyGraphqlRequest"
  /\ Len(requests) = 1
  /\ remote.net = "ok"
  /\ remote.status = 200
  /\ remote.body = "errors"
  /\ outcome.kind = "error"
  /\ outcome.err.cls = "ShopifyRequestError"

\* C9: a transport entry point that receives a non-2xx status ends with the
\* classifier's error for that status (401/403 AuthorizationError, 402
\* PaymentError, otherwise InputError or RequestError) whatever the body
\* is, and never with GeneralClientError.
C9_NonOkStatusIsClassified ==
  ( /\ Done
    /\ op \in TransportOps
    /\ remote.net = "ok"
    /\ (remote.status < 200 \/ remote.status > 299) ) =>
      /\ outcome.kind = "error"
      /\ outcome.err.cls \in ClassifiedErrors
      /\ remote.status \in {401, 403} =>
           outcome.err.cls = "ShopifyAuthorizationError"
      /\ remote.status = 402 /\ remote.signal # "access" =>
           outcome.err.cls = "ShopifyPaymentError"
      /\ remote.status \notin {401, 402, 403}
           /\ remote.signal \notin {"access", "payment"} =>
           outcome.err.cls \in {"ShopifyInputError", "ShopifyRequestError"}

\* C10: when the remote answers a REST request with a 2xx status and a
\* body that is not JSON, shopifyHTTPRequest never returns: the invocation
\* fails with GeneralClientError whose context is the request.
C10_RestUnparseableSuccessFails ==
  ( /\ IssuedVia("http")
    /\ remote.net = "ok"
    /\ remote.status >= 200 /\ remote.status <= 299
    /\ remote.body = "nonjson" ) =>
      /\ ~TransportReturned("shopifyHTTPRequest")
      /\ Done =>
           /\ outcome.kind = "error"
           /\ outcome.err.cls = "GeneralShopifyClientError"
           /\ outcome.err.ctx = requests[Len(requests)]

C10_Witness ==
  /\ Done
  /\ op = "shopifyHTTPRequest"
  /\ Len(requests) = 1
  /\ remote.net = "ok"
  /\ remote.status = 204
  /\ remote.body = "nonjson"
  /\ outcome.kind = "error"
  /\ outcome.err.cls = "GeneralShopifyClientError"
  /\ outcome.err.ctx = requests[1]

\* How many times a request appears in the log.
TimesIssued(req) == Cardinality({k \in 1..Len(requests) : requests[k] = req})

\* C11: a call of shopifyHTTPRequest or shopifyGraphqlRequest issues its
\* request exactly once, however the call ends: not at all before its
\* fetch, once from then on, and a finished direct call has a log of one
\* request.  No request of an invocation is in the log twice, and nothing
\* is issued while an error is on its way to the caller.
C11_OneFetchPerTransportCall ==
  /\ \A i \in 1..Len(stack) :
       stack[i].fn \in TransportOps =>
         TimesIssued(stack[i].req) = IF stack[i].pc > 1 THEN 1 ELSE 0
  /\ \A k \in 1..Len(requests) : TimesIssued(requests[k]) = 1
  /\ op \in TransportOps /\ Done => Len(requests) = 1
  /\ exc # NoErr /\ Top.fn \in TransportOps => TimesIssued(Top.req) = 1

C11_Witness ==
  /\ Done
  /\ op = "loadProducts"
  /\ outcome.kind = "error"
  /\ outcome.err.cls = "ShopifyRequestError"
  /\ Len(requests) = 1
  /\ requests[1].asks = "loadProducts"

\* The error the local checks of the invoked operation throw on its input.
ValidationFailure ==
  IF TakesInput(op) THEN Validate(op, input) ELSE NoErr

\* The error the transport throws for a request it has issued.
TransportFailure(req) ==
  IF req.via = "http" THEN HttpOutcome(remote, req).thrown
                      ELSE GraphqlOutcome(remote, req).thrown

\* The transport call for the last request of the log has settled.
LastSettled ==
  \/ Done
  \/ exc # NoErr
  \/ Top.fn \notin TransportOps

\* C12: in a domain operation, an error thrown by a local input check or by
\* a transport call is the error on its way up and the error the operation
\* ends with, equal in class, code, status, list and context; a failed
\* input check leaves the request log empty and a failed transport call is
\* the last request of the log.
C12_FailurePropagatesUnchanged ==
  op \in DomainOps =>
    /\ ValidationFailure # NoErr =>
         /\ requests = << >>
         /\ exc # NoErr => exc = ValidationFailure
         /\ Done => outcome.kind = "error" /\ outcome.err = ValidationFailure
    /\ \A k \in 1..Len(requests) :
         TransportFailure(requests[k]) # NoErr =>
           /\ k = Len(requests)
           /\ LastSettled =>
                /\ ~Done => exc = TransportFailure(requests[k])
                /\ Done =>
                     /\ outcome.kind = "error"
                     /\ outcome.err = TransportFailure(requests[k])

C12_Witness ==
  /\ Done
  /\ op = "createDraftOrder"
  /\ Len(requests) = 1
  /\ TransportFailure(requests[1]) # NoErr
  /\ outcome.kind = "error"
  /\ outcome.err = TransportFailure(requests[1])
  /\ outcome.err.cls = "ShopifyAuthorizationError"
  /\ outcome.err.ctx = requests[1]

\* The closed set of error kinds, by the names of their classes.
Taxonomy ==
  {"ShopifyAuthorizationError", "ShopifyInputError", "ShopifyPaymentError",
   "ShopifyRequestError", "GeneralShopifyClientError",
   "ShopifyProductVariantNotFoundError",
   "ShopifyProductVariantNotAvailableForSaleError", "ShopifyUserError"}

\* C13: every error a domain operation or a transport entry point ends
\* with is of a class of the taxonomy (the CustomError with code
\* InvalidInputError counted as InputError).
C13_ErrorsInTaxonomy ==
  Done /\ op \in PublicOps /\ outcome.kind = "error" =>
    \/ outcome.err.cls \in Taxonomy
    \/ IsInputError(outcome.err)

\* The handler of the running tool has returned to the protocol layer.
Replied == tool # "none" /\ reply # NoReply

\* C14: a tool handler whose client call has failed returns a payload
\* flagged isError whose text is the tool's default message, ": " and the
\* message of the error the client call ended with (its string when it is
\* not an Error); a handler whose client call has returned a result
\* returns a payload that is not flagged; and a handler that has not
\* returned yet is either waiting for its client call, which is running,
\* or able to return.
C14_HandlerAlwaysReplies ==
  /\ Replied =>
       /\ reply.kind = "payload"
       /\ Failed =>
            /\ reply.isError
            /\ reply.text =
                 DefaultMessage(tool) \o ": " \o
                   (IF InstanceOfError(outcome.err)
                      THEN Message(outcome.err) ELSE String(outcome.err))
       /\ Succeeded => ~reply.isError
  /\ tool # "none" /\ ~Replied =>
       \/ phase = "running" /\ stack # << >>
       \/ phase = "done" /\ ENABLED ToolReturn

C14_Witness ==
  /\ Replied
  /\ tool = "get-orders"
  /\ Failed
  /\ outcome.err.cls = "RangeError"
  /\ reply.isError
  /\ reply.text = "Failed to retrieve orders data: message of RangeError"

\* The server was started without its access token or its store handle.
ConfigMissing ==
  /\ proc.at # "library"
  /\ \/ env.SHOPIFY_ACCESS_TOKEN \in {"absent", ""}
     \/ env.MYSHOPIFY_DOMAIN \in {"absent", ""}

\* C15: a server started with the access token or the store handle absent
\* or empty never gets past the check of the missing variable, so it never
\* connects its transport and never runs a tool handler; the check it
\* stands at is the next thing it does, and when it has exited its status
\* is not zero.  The transport is connected only when both are present.
C15_FailFastOnMissingConfig ==
  /\ ConfigMissing =>
       /\ ~proc.connected
       /\ tool = "none"
       /\ proc.at \in {"token", "domain", "exited"}
       /\ env.SHOPIFY_ACCESS_TOKEN \in {"absent", ""} =>
            proc.at \in {"token", "exited"}
       /\ proc.at = "token" => ENABLED CheckToken
       /\ proc.at = "domain" => ENABLED CheckDomain
       /\ proc.at = "exited" => proc.exited /\ proc.code # 0
  /\ proc.connected =>
       /\ env.SHOPIFY_ACCESS_TOKEN \notin {"absent", ""}
       /\ env.MYSHOPIFY_DOMAIN \notin {"absent", ""}

C15_Witness ==
  /\ env.SHOPIFY_ACCESS_TOKEN = CallerToken
  /\ env.MYSHOPIFY_DOMAIN = ""
  /\ proc.exited
  /\ proc.code = 1
  /\ ~proc.connected
  /\ tool = "none"

\* C16: getShopifyOrdersNextPage returns no cursor for a header without a
\* next link (absent, empty, or the previous link alone), and the
\* page_info value of the next link for a header with the next link alone
\* or with the previous link followed by the next link.
C16_NextPageCursor ==
  Done /\ op = "getShopifyOrdersNextPage" =>
    /\ outcome.kind = "result"
    /\ input.link.shape \in {"absent", "empty", "previous"} =>
         outcome.val = "undefined"
    /\ input.link.shape \in {"next", "both"} =>
         outcome.val = input.link.nextPage

\* The half of the incoming composite cursor is the exhaustion sentinel.
CustomExhausted == input.next.defined /\ input.next.s[1] = "undefined"
SmartExhausted ==
  /\ input.next.defined
  /\ Len(input.next.s) = 3
  /\ input.next.s[3] = "undefined"

\* The next page a sub-resource reports in its Link header, "undefined"
\* when it reports none or is not asked.
ReportedNext(link, exhausted) ==
  IF ~exhausted /\ link.shape \in {"next", "both"}
    THEN link.nextPage ELSE "undefined"
CustomReported == ReportedNext(remote.customLink, CustomExhausted)
SmartReported == ReportedNext(remote.smartLink, SmartExhausted)

\* C17: against a remote that answers every request successfully,
\* loadCollections returns the cursor undefined exactly when neither
\* sub-resource reports a next page, and otherwise the two sub-cursors
\* joined by a comma, the exhausted side written "undefined".
C17_CompositeCursorOut ==
  Done /\ op = "loadCollections" /\ RemoteSucceeds =>
    /\ outcome.kind = "result"
    /\ outcome.val =
         IF CustomReported = "undefined" /\ SmartReported = "undefined"
           THEN "undefined"
           ELSE CustomReported \o "," \o SmartReported

\* C18: loadCollections requests a collections endpoint only when its half
\* of the incoming cursor is not "undefined", and against a remote that
\* answers every request successfully the finished operation has
\* requested exactly the endpoints whose half is not "undefined".
C18_EndpointRequestedIffNotExhausted ==
  op = "loadCollections" =>
    /\ Issued("custom_collections.json") => ~CustomExhausted
    /\ Issued("smart_collections.json") => ~SmartExhausted
    /\ Done /\ RemoteSucceeds =>
         /\ ~CustomExhausted => Issued("custom_collections.json")
         /\ ~SmartExhausted => Issued("smart_collections.json")

\* C19: the id in the variables of a mutation that an operation sends is
\* the GlobalId of the operation's resource type, prefixed once, whether
\* the caller gave the bare id or that GlobalId.
C19_SentIdsAreGlobalIds ==
  op \in IdOps =>
    \A k \in 1..Len(requests) :
      requests[k].asks = Asks(op) =>
        requests[k].id = Gid(IdType(op), BareId)

\* C20: ensureGid returns an id that starts with the GlobalId prefix as it
\* is, whatever the type, and applying ensureGid to its own result with
\* any type changes nothing.
C20_EnsureGidIdempotent ==
  Done /\ op = "ensureGid" =>
    /\ (Len(input.id) > 0 /\ input.id[1] = "gid://shopify/") =>
         outcome.val = Join(input.id)
    /\ \A t \in ResourceTypes :
         /\ ensureGid(ensureGid(input.id, input.type), t) =
              ensureGid(input.id, input.type)
         /\ Join(ensureGid(ensureGid(input.id, input.type), t)) = outcome.val

C20_Witness ==
  /\ Done
  /\ op = "ensureGid"
  /\ input.id = <<"gid://shopify/", "Customer", "/", "123">>
  /\ input.type = "Product"
  /\ outcome.kind = "result"
  /\ outcome.val = "gid://shopify/Customer/123"

\* C21: for every bare numeric id and every resource type T, ensureGid
\* returns the text "gid://shopify/", T, "/" and the id, written in a row.
C21_BareIdIsPrefixed ==
  Done /\ op = "ensureGid" /\ input.id \in BareIds =>
    /\ outcome.kind = "result"
    /\ outcome.val = "gid://shopify/" \o input.type \o "/" \o Join(input.id)

C21_Witness ==
  /\ Done
  /\ op = "ensureGid"
  /\ input.id = <<"4567890">>
  /\ input.type = "Customer"
  /\ outcome.kind = "result"
  /\ outcome.val = "gid://shopify/Customer/4567890"

\* A subscription field of a request body is in the JSON text.
Populated(variables) ==
  \/ variables.appliesOnOneTimePurchase # "omitted"
  \/ variables.appliesOnSubscription # "omitted"
  \/ variables.recurringCycleLimit # "omitted"

\* C22: createBasicDiscountCode sends the discountCodeBasicCreate mutation
\* after the eligibility read, and the variables of that mutation carry
\* appliesOnOneTimePurchase, appliesOnSubscription or recurringCycleLimit
\* only when the read reported the shop both eligible for and selling
\* subscriptions; otherwise the three keys are left out of the payload.
C22_SubscriptionFieldsFollowEligibility ==
  /\ \A k \in 1..Len(requests) :
       requests[k].asks = "discountCodeBasicCreate" =>
         /\ Issued("shop.features")
         /\ Populated(requests[k].variables) =>
              remote.eligible /\ remote.sells
  /\ \A k \in 1..Len(requests) :
       requests[k].asks # "discountCodeBasicCreate" =>
         ~Populated(requests[k].variables)
  /\ ( /\ Done
       /\ op = "createBasicDiscountCode"
       /\ InputAccepted
       /\ RemoteSucceeds ) => Issued("discountCodeBasicCreate")

\* The severity the kinds of error are keyed to: low for authorization,
\* input and payment errors, high for request and general client errors.
LowSeverityKinds ==
  {"ShopifyAuthorizationError", "ShopifyInputError", "ShopifyPaymentError"}
HighSeverityKinds == {"ShopifyRequestError", "GeneralShopifyClientError"}
KeyedSeverity(cls) ==
  IF cls \in LowSeverityKinds THEN "debug"
  ELSE IF cls \in HighSeverityKinds THEN "error"
  ELSE "none"

\* The console calls a transport entry point made about a request.
TransportEntries(req) ==
  {i \in 1..Len(logs) : logs[i].by \in TransportOps /\ logs[i].req = req}

\* C23: when a transport entry point has failed for a request, the error
\* it failed with is in the log at the severity of its kind, debug for
\* AuthorizationError, InputError and PaymentError, error for RequestError
\* and GeneralClientError, and for the first three nothing about the
\* request was written by the transport at another severity.
C23_ErrorsLoggedAtKeyedSeverity ==
  \A k \in 1..Len(requests) :
    LET req == requests[k]
        e == TransportFailure(req)
    IN (e # NoErr /\ (k < Len(requests) \/ LastSettled)) =>
         /\ \E i \in TransportEntries(req) :
              /\ logs[i].error = e
              /\ logs[i].level = KeyedSeverity(e.cls)
         /\ e.cls \in LowSeverityKinds =>
              \A i \in TransportEntries(req) : logs[i].level = "debug"

\* The requests of s are the first requests of t, in the same order.
IsPrefix(s, t) == Len(s) <= Len(t) /\ SubSeq(t, 1, Len(s)) = s

\* An invocation of the tool and arguments of the first call has issued
\* requests that the first call issued, in its order, and when its handler
\* has returned it has issued the same requests, its client call has ended
\* the same way and its handler has returned the same payload.
SameAsAlone(c) ==
  (c.tool # "none" /\ c.tool = alone.tool /\ c.input = alone.input) =>
    /\ IsPrefix(c.requests, alone.requests)
    /\ c.reply # NoReply =>
         /\ c.requests = alone.requests
         /\ c.outcome = alone.outcome
         /\ c.reply = alone.reply

\* C24: tool invocations that overlap, each left at its await of fetch
\* while the other runs, issue the same requests and end the same way as
\* the same tool call did when it ran by itself against the same remote,
\* in whatever order the event loop takes their steps.
C24_InterleavingChangesNothing ==
  alone # NoReference => SameAsAlone(Current) /\ SameAsAlone(parked)

C24_Witness ==
  /\ handled = 3
  /\ alone.tool = "create-draft-order"
  /\ tool = "create-draft-order"
  /\ input = alone.input
  /\ reply # NoReply
  /\ reply = alone.reply
  /\ Len(requests) = 1
  /\ outcome.kind = "error"
  /\ outcome.err.cls = "ShopifyUserError"
  /\ Suspended(parked)
  /\ parked.tool = "get-products"
  /\ Len(parked.requests) = 1

\* C25: tagCustomer ends with the result true whenever the tagsAdd
\* mutation comes back with an empty userErrors list, and with no other
\* result ever: whatever else happens is an error.  The tag-customer
\* handler therefore never returns the unflagged payload "Failed to tag
\* customer".
C25_TagCustomerTrueOrThrows ==
  /\ Done /\ op = "tagCustomer" /\ outcome.kind = "result" =>
       outcome.val = "true"
  /\ Replied /\ tool = "tag-customer" /\ ~reply.isError =>
       reply.text = "Successfully tagged customer"
  /\ ( /\ Done
       /\ op = "tagCustomer"
       /\ RemoteSucceeds
       /\ remote.userErrors = << >> ) =>
         outcome.kind = "result" /\ outcome.val = "true"

\* The owner id setMetafields is to send for the caller's ownerId.
ExpectedOwnerId(ownerId) ==
  IF Len(ownerId) > 0 /\ ownerId[1] = "gid://shopify/"
    THEN ownerId
    ELSE <<"gid://shopify/", "Product", "/">> \o ownerId

\* C26: setMetafields sends the metafieldsSet mutation with the caller's
\* ownerId unchanged, type segment included, when it already starts with
\* the GlobalId prefix, and otherwise with the bare id prefixed with the
\* resource type Product.
C26_OwnerIdInferred ==
  op = "setMetafields" =>
    /\ \A k \in 1..Len(requests) :
         requests[k].asks = "setMetafields" =>
           requests[k].id = ExpectedOwnerId(input.id)
    /\ ( /\ Done
         /\ InputAccepted
         /\ RemoteSucceeds
         /\ remote.userErrors = << >> ) =>
           \E k \in 1..Len(requests) :
             /\ requests[k].asks = "setMetafields"
             /\ requests[k].id = ExpectedOwnerId(input.id)

\* C27: against a remote that answers every request successfully and
\* whose mutation payload carries a non-empty userErrors list together with
\* a null payload node, createBasicDiscountCode and completeDraftOrder fail
\* with UserError carrying that list, and not with an untyped error raised
\* while reading the node.
C27_UserErrorsBeforeNullNode ==
  ( /\ Done
    /\ op \in {"createBasicDiscountCode", "completeDraftOrder"}
    /\ InputAccepted
    /\ RemoteSucceeds
    /\ remote.variant = "available"
    /\ remote.nodeNull
    /\ Len(remote.userErrors) > 0 ) =>
      /\ outcome.kind = "error"
      /\ outcome.err.cls = "ShopifyUserError"
      /\ outcome.err.userErrors = remote.userErrors

\* The cursor is one a chain of calls passes on: none for the first call,
\* or the pair a previous call returned, which names a next page for at
\* least one sub-resource.
ChainCursor ==
  \/ ~input.next.defined
  \/ /\ Len(input.next.s) = 3
     /\ input.next.s[2] = ","
     /\ ~(input.next.s[1] = "undefined" /\ input.next.s[3] = "undefined")

\* C28: in a chain of loadCollections calls, each given the cursor the
\* previous one returned, a call does not request a sub-resource that has
\* reported no next page (its half of the cursor is "undefined"), and
\* against a remote that answers every request successfully the call
\* returns a cursor, which is undefined, ending the chain, exactly when
\* both sub-resources have by then reported no next page, and otherwise
\* names the pages reported for the next call.
C28_PagingChainEnds ==
  op = "loadCollections" /\ ChainCursor =>
    /\ CustomExhausted => ~Issued("custom_collections.json")
    /\ SmartExhausted => ~Issued("smart_collections.json")
    /\ Done /\ RemoteSucceeds =>
         /\ outcome.kind = "result"
         /\ outcome.val = "undefined" <=>
              (CustomReported = "undefined" /\ SmartReported = "undefined")
         /\ outcome.val # "undefined" =>
              outcome.val = CustomReported \o "," \o SmartReported

\* C29: deletePriceRule and deleteDiscountCode end without an error
\* whenever the remote answers with a 2xx status, whether the body of the
\* answer is JSON or is empty.
C29_DeleteSucceedsOn2xx ==
  ( /\ Done
    /\ op \in {"deletePriceRule", "deleteDiscountCode"}
    /\ remote.net = "ok"
    /\ remote.status >= 200 /\ remote.status <= 299
    /\ remote.body \in {"data", "nonjson"} ) =>
      /\ outcome.kind = "result"
      /\ Issued(Asks(op))
      /\ requests[Len(requests)].method = "DELETE"

\* The inputs the local checks are to reject: a blank or absent title for
\* createProduct, no id for updateProduct, no product id or no variants
\* for createProductVariantsBulk, no metafields or a metafield without
\* key, namespace, ownerId, type or value for setMetafields.
RejectedLocally ==
  \/ op = "createProduct" /\ input.defect \in {"title absent", "title blank"}
  \/ op = "updateProduct" /\ input.defect = "id absent"
  \/ /\ op = "createProductVariantsBulk"
     /\ input.defect \in {"productId absent", "variants absent",
                          "variants empty"}
  \/ /\ op = "setMetafields"
     /\ input.defect \in {"metafields absent", "metafields empty",
                          "key absent", "namespace absent", "ownerId absent",
                          "type absent", "value absent"}

\* C30: createProduct, updateProduct, createProductVariantsBulk and
\* setMetafields reject such an input before they await anything: no
\* request is ever issued, the shop lookup of domain resolution included,
\* no other method is called, and the invocation ends with the error of
\* the check.
C30_RejectedBeforeAnyRequest ==
  RejectedLocally =>
    /\ requests = << >>
    /\ Len(stack) <= 1
    /\ \A i \in 1..Len(stack) : stack[i].fn = op /\ stack[i].pc = 1
    /\ Done => outcome.kind = "error" /\ outcome.err.cls = "Error"

C30_Witness ==
  /\ Done
  /\ op = "setMetafields"
  /\ input.defect = "value absent"
  /\ outcome.kind = "error"
  /\ outcome.err.cls = "Error"
  /\ requests = << >>
  /\ logs = << >>
====
